---- MODULE Spec2Model ----
(***************************************************************************)
(* Todo API with an activity log (controllers/todoController.js,           *)
(* controllers/activityController.js, config/database.js).                 *)
(*                                                                         *)
(* The state is the SQLite store (tables todos and activities with their   *)
(* AUTOINCREMENT counters), the store clock, the handlers that are in      *)
(* flight (each waiting for the callback of one statement), the last       *)
(* response sent and the state of the process.  A handler runs up to its   *)
(* first statement when the request arrives and returns to the event loop; *)
(* every statement with its callback is one later step, so statements of   *)
(* different requests interleave in any order; a callback that settles the *)
(* last promise a handler awaits sends the response in the same step.  A   *)
(* handler is reached through server.js, which mounts the todo router only *)
(* and calls its handlers without a receiver, or is called as a method of  *)
(* its controller.                                                         *)
(***************************************************************************)
EXTENDS Integers, Sequences, FiniteSets, TLC

\* ------------------------------------------------------------------ bounds
\* requests issued in one behaviour
MaxCalls == 2
\* handlers waiting for a store callback at the same time
MaxInflight == 2
\* last value of the store clock (CURRENT_TIMESTAMP)
MaxClock == 1
\* clock values per calendar day
TicksPerDay == 2
\* largest page / limit a list request asks for
MaxPage == 2
MaxLimit == 2

\* -------------------------------------------------------------- JS values
\* A JS value is a sequence of strings whose head is its type tag; a string
\* value carries its characters after the tag.
JUndef == <<"undefined">>
JNull == <<"null">>
JStr(s) == <<"str">> \o s
JBool(b) == <<"bool", IF b THEN "true" ELSE "false">>

Digits == <<"0", "1", "2", "3", "4", "5", "6", "7", "8", "9">>
NumStr(n) == Digits[n + 1]
JNum(n) == <<"num", NumStr(n)>>
NumOf(v) == CHOOSE n \in 0..9 : NumStr(n) = v[2]

StrOf(v) == Tail(v)

\* JS truthiness: undefined, null, '', false and 0 are falsy.
Truthy(v) ==
    CASE v[1] = "undefined" -> FALSE
      [] v[1] = "null" -> FALSE
      [] v[1] = "str" -> Len(v) > 1
      [] v[1] = "bool" -> v[2] = "true"
      [] OTHER -> v[2] # "0"

\* String.prototype.trim on a sequence of characters.
RECURSIVE TrimStart(_)
TrimStart(s) == IF s # <<>> /\ Head(s) = " " THEN TrimStart(Tail(s)) ELSE s

RECURSIVE TrimEnd(_)
TrimEnd(s) ==
    IF s # <<>> /\ s[Len(s)] = " " THEN TrimEnd(SubSeq(s, 1, Len(s) - 1)) ELSE s

Trim(s) == TrimEnd(TrimStart(s))

\* Array.prototype.join
RECURSIVE Join(_, _)
Join(lines, sep) ==
    IF lines = <<>> THEN <<>>
    ELSE IF Len(lines) = 1 THEN lines[1]
    ELSE lines[1] \o sep \o Join(Tail(lines), sep)

\* A JS object is a sequence of <<key, value>> pairs in insertion order.
NullObj == << <<"#null", JNull>> >>
Keys(obj) == {obj[i][1] : i \in 1..Len(obj)}
Lookup(obj, k) == obj[CHOOSE i \in 1..Len(obj) : obj[i][1] = k][2]

\* { ...a, ...b }: keys of a keep their place and take b's value, new keys follow.
Spread(a, b) ==
    [i \in 1..Len(a) |->
        IF a[i][1] \in Keys(b) THEN <<a[i][1], Lookup(b, a[i][1])>> ELSE a[i]]
    \o SelectSeq(b, LAMBDA p : p[1] \notin Keys(a))

\* JSON.stringify: the text as a sequence of tokens; members whose value is
\* undefined are left out.
JsonOf(v) ==
    CASE v[1] = "str" -> <<"\"">> \o Tail(v) \o <<"\"">>
      [] v[1] = "null" -> <<"null">>
      [] OTHER -> <<v[2]>>

RECURSIVE Members(_)
Members(ps) ==
    IF ps = <<>> THEN <<>>
    ELSE <<"\"", ps[1][1], "\":">> \o JsonOf(ps[1][2])
         \o (IF Len(ps) > 1 THEN <<",">> ELSE <<>>) \o Members(Tail(ps))

Stringify(obj) ==
    <<"{">> \o Members(SelectSeq(obj, LAMBDA p : p[2] # JUndef)) \o <<"}">>

\* SQL NULL in a TEXT column
NullText == <<"#NULL">>
\* SQL NULL in an INTEGER column
NullId == 0

\* oldValue ? JSON.stringify(oldValue) : null
ValueText(obj) == IF obj = NullObj THEN NullText ELSE Stringify(obj)

\* A bound parameter that is undefined or null is stored as NULL.
BindId(v) == IF v[1] = "num" THEN NumOf(v) ELSE NullId

\* ------------------------------------------------------------ store rows
\* (mutant) INTEGER PRIMARY KEY without AUTOINCREMENT: one more than the largest
\* id in the table
AssignedIdFromRows(ids, counter) ==
    IF ids = {} THEN 1 ELSE 1 + (CHOOSE m \in ids : \A k \in ids : k <= m)

\* INTEGER PRIMARY KEY AUTOINCREMENT: the id of an inserted row comes from the
\* table's counter, which only grows, whatever rows the table still holds
AssignedId(ids, counter) == counter

TimeStr(t) == <<"t", NumStr(t)>>
DateOf(t) == t \div TicksPerDay

NoRow ==
    [id |-> 0, title |-> <<>>, description |-> <<>>, completed |-> 0,
     created_at |-> 0, updated_at |-> 0]

\* the row object db.get hands to the callback
RowObj(r) ==
    << <<"id", JNum(r.id)>>, <<"title", JStr(r.title)>>,
       <<"description", JStr(r.description)>>, <<"completed", JNum(r.completed)>>,
       <<"created_at", JStr(TimeStr(r.created_at))>>,
       <<"updated_at", JStr(TimeStr(r.updated_at))>> >>

\* the req argument of logActivity: null by default, otherwise the request,
\* which the ip and the User-Agent are read from
NoReq == JNull
Req == <<"req">>
ReqIp == <<"127.0.0.1">>
ReqAgent == <<"agent">>

\* ----------------------------------------------------------- createTodo
\* (mutant) the title checked without trimming
TitleInvalidUntrimmed(title) == ~Truthy(title)

\* !title || title.trim() === ''
TitleInvalid(title) == ~Truthy(title) \/ Trim(StrOf(title)) = <<>>

DescOrEmpty(description) ==
    IF Truthy(description) THEN Trim(StrOf(description)) ELSE <<>>

\* (mutant) the INSERT given the inputs as they came
NewTodoRowUntrimmed(id, title, description, t) ==
    [id |-> id, title |-> StrOf(title),
     description |-> IF Truthy(description) THEN StrOf(description) ELSE <<>>,
     completed |-> 0, created_at |-> t, updated_at |-> t]

\* INSERT INTO todos (title, description): the other columns take their defaults
NewTodoRow(id, title, description, t) ==
    [id |-> id, title |-> Trim(StrOf(title)), description |-> DescOrEmpty(description),
     completed |-> 0, created_at |-> t, updated_at |-> t]

\* `this.lastID` in the arrow callback: `this` is the controller, which has no lastID
ControllerLastID(stmtLastID) == JUndef

NewTodo(todoId, title, description) ==
    << <<"id", todoId>>, <<"title", JStr(Trim(StrOf(title)))>>,
       <<"description", JStr(DescOrEmpty(description))>>,
       <<"completed", JBool(FALSE)>> >>

\* the record logActivity hands to createActivity
LogPayload(todoId, action, description, oldValue, newValue, req) ==
    [todo_id |-> todoId, action |-> action, description |-> description,
     old_value |-> ValueText(oldValue), new_value |-> ValueText(newValue),
     user_ip |-> IF req = NoReq THEN NullText ELSE ReqIp,
     user_agent |-> IF req = NoReq THEN NullText ELSE ReqAgent]
CreatePayload(todoId, title, description) ==
    LogPayload(BindId(todoId), "CREATE",
               <<"Todo \"">> \o Trim(StrOf(title)) \o <<"\" was created">>,
               NullObj, NewTodo(todoId, title, description), Req)
\* (mutant) the title compared without trimming
TitleSetUntrimmed(cur, title) == title # JUndef /\ StrOf(title) # cur.title

\* ----------------------------------------------------------- updateTodo
TitleSet(cur, title) == title # JUndef /\ Trim(StrOf(title)) # cur.title
DescSet(cur, description) ==
    description # JUndef /\ DescOrEmpty(description) # cur.description
NewCompleted(completed) == IF Truthy(completed) THEN 1 ELSE 0
\* (mutant) every supplied completed counts as a change
CompletedSetAlways(cur, completed) == completed # JUndef

CompletedSet(cur, completed) ==
    completed # JUndef /\ NewCompleted(completed) # cur.completed

StatusWord(done) == IF done THEN "completed" ELSE "pending"

Changes(cur, title, description, completed) ==
    (IF TitleSet(cur, title)
     THEN << <<"Title changed from \"">> \o cur.title \o <<"\" to \"">>
             \o Trim(StrOf(title)) \o <<"\"">> >>
     ELSE <<>>)
    \o (IF DescSet(cur, description)
        THEN << <<"Description changed from \"">> \o cur.description \o <<"\" to \"">>
                \o DescOrEmpty(description) \o <<"\"">> >>
        ELSE <<>>)
    \o (IF CompletedSet(cur, completed)
        THEN << <<"Status changed from ", StatusWord(cur.completed # 0), " to ",
                  StatusWord(Truthy(completed))>> >>
        ELSE <<>>)

\* (mutant) an UPDATE that sets all three columns, the unchanged ones from the
\* row as it was read
UpdatedRowAllColumns(row, cur, title, description, completed, t) ==
    [row EXCEPT
        !.title = IF TitleSet(cur, title) THEN Trim(StrOf(title)) ELSE cur.title,
        !.description =
            IF DescSet(cur, description) THEN DescOrEmpty(description) ELSE cur.description,
        !.completed =
            IF CompletedSet(cur, completed) THEN NewCompleted(completed) ELSE cur.completed,
        !.updated_at = t]

\* the columns of the UPDATE statement: only the changed fields, then updated_at
UpdatedRow(row, cur, title, description, completed, t) ==
    [row EXCEPT
        !.title = IF TitleSet(cur, title) THEN Trim(StrOf(title)) ELSE @,
        !.description = IF DescSet(cur, description) THEN DescOrEmpty(description) ELSE @,
        !.completed = IF CompletedSet(cur, completed) THEN NewCompleted(completed) ELSE @,
        !.updated_at = t]

\* req.body: the supplied members only
BodyObj(title, description, completed) ==
    (IF title # JUndef THEN << <<"title", title>> >> ELSE <<>>)
    \o (IF description # JUndef THEN << <<"description", description>> >> ELSE <<>>)
    \o (IF completed # JUndef THEN << <<"completed", completed>> >> ELSE <<>>)

UpdatePayload(id, cur, title, description, completed) ==
    LogPayload(id, "UPDATE",
               Join(Changes(cur, title, description, completed), <<", ">>),
               RowObj(cur),
               Spread(RowObj(cur), BodyObj(title, description, completed)), Req)

\* ----------------------------------------------------------- deleteTodo
DeletePayload(id, cur) ==
    LogPayload(id, "DELETE", <<"Todo \"">> \o cur.title \o <<"\" was deleted">>,
               RowObj(cur), NullObj, Req)

\* DELETE FROM todos WHERE id = ?
WithoutTodo(ts, id) == [k \in DOMAIN ts \ {id} |-> ts[k]]
\* (mutant) foreign_keys on: ON DELETE SET NULL clears the reference
ActivitiesAfterTodoDeleteSetNull(acts, id) ==
    [i \in 1..Len(acts) |->
        IF acts[i].todo_id = id THEN [acts[i] EXCEPT !.todo_id = NullId] ELSE acts[i]]

\* (mutant) the reference declared ON DELETE CASCADE and enforced
ActivitiesAfterTodoDeleteCascade(acts, id) == SelectSeq(acts, LAMBDA a : a.todo_id # id)

\* the activities after a todo row is deleted: connect() never turns
\* foreign_keys on, so ON DELETE SET NULL does not run
ActivitiesAfterTodoDelete(acts, id) == acts

\* -------------------------------------------------------- createActivity
\* (mutant) the INSERT without the two snapshot columns
ActivityRowWithoutValues(id, payload, t) ==
    [id |-> id, todo_id |-> payload.todo_id, action |-> payload.action,
     description |-> payload.description, old_value |-> NullText,
     new_value |-> NullText, user_ip |-> payload.user_ip,
     user_agent |-> payload.user_agent, created_at |-> t]

\* INSERT INTO activities: id and created_at are assigned by the store
ActivityRow(id, payload, t) ==
    [id |-> id, todo_id |-> payload.todo_id, action |-> payload.action,
     description |-> payload.description, old_value |-> payload.old_value,
     new_value |-> payload.new_value, user_ip |-> payload.user_ip,
     user_agent |-> payload.user_agent, created_at |-> t]

\* logActivity with oldValue, newValue and req left to their defaults
NoPayload == LogPayload(NullId, "", <<>>, NullObj, NullObj, NoReq)

\* ------------------------------------------------------- activity reads
Min(a, b) == IF a < b THEN a ELSE b

\* Math.ceil(total / limit) for limit >= 1
CeilDiv(a, b) == IF a % b = 0 THEN a \div b ELSE (a \div b) + 1

\* LEFT JOIN todos t ON a.todo_id = t.id: t.title as todo_title
Joined(ts, a) ==
    [act |-> a,
     todo_title |-> IF a.todo_id \in DOMAIN ts THEN JStr(ts[a.todo_id].title) ELSE JNull]

\* WHERE a.todo_id = ? (no WHERE clause when the filter is absent)
Matching(acts, todo_id) ==
    SelectSeq(acts, LAMBDA a : todo_id = NullId \/ a.todo_id = todo_id)

\* ORDER BY a.created_at DESC: the rows descending in created_at.  The query
\* names no second key: rows with equal created_at stay in the order the scan
\* of the table delivers them to SQLite's sorter, which is rowid order.
RECURSIVE InsertDesc(_, _)
InsertDesc(sorted, r) ==
    IF sorted = <<>> THEN <<r>>
    ELSE IF Head(sorted).created_at >= r.created_at
    THEN <<Head(sorted)>> \o InsertDesc(Tail(sorted), r)
    ELSE <<r>> \o sorted

RECURSIVE SortDesc(_)
SortDesc(rows) ==
    IF rows = <<>> THEN <<>>
    ELSE InsertDesc(SortDesc(SubSeq(rows, 1, Len(rows) - 1)), rows[Len(rows)])

\* the result sets the query can produce
Ordered(rows) == {SortDesc(rows)}

\* (mutant) the offset taken as page * limit
SliceFromNextPage(rows, offset, limit) ==
    SubSeq(rows, offset + limit + 1, Min(offset + 2 * limit, Len(rows)))

\* LIMIT ? OFFSET ?
Slice(rows, offset, limit) == SubSeq(rows, offset + 1, Min(offset + limit, Len(rows)))

JoinAll(ts, rows) == [i \in 1..Len(rows) |-> Joined(ts, rows[i])]

CountWhere(acts, Test(_)) == Len(SelectSeq(acts, Test))
\* (mutant) GROUP BY action without the COUNT
ByActionUncounted(acts) ==
    {[action |-> k, count |-> 1] : k \in {acts[i].action : i \in 1..Len(acts)}}

\* SELECT action, COUNT(*) as count FROM activities GROUP BY action
ByAction(acts) ==
    {[action |-> k, count |-> CountWhere(acts, LAMBDA a : a.action = k)] :
        k \in {acts[i].action : i \in 1..Len(acts)}}

\* days that appear among 0..d, most recent first
RECURSIVE DaysDesc(_, _)
DaysDesc(acts, d) ==
    IF d < 0 THEN <<>>
    ELSE (IF \E i \in 1..Len(acts) : DateOf(acts[i].created_at) = d
          THEN <<[date |-> d,
                  count |-> CountWhere(acts, LAMBDA a : DateOf(a.created_at) = d)]>>
          ELSE <<>>)
         \o DaysDesc(acts, d - 1)

StatsDays == 7

\* (mutant) the query without its LIMIT
Last7DaysUnlimited(acts, t) == DaysDesc(acts, DateOf(t))

\* ... GROUP BY DATE(created_at) ORDER BY date DESC LIMIT 7
Last7Days(acts, t) == Slice(DaysDesc(acts, DateOf(t)), 0, StatsDays)

\* COUNT(*) ... WHERE DATE(created_at) = DATE("now")
Today(acts, t) == CountWhere(acts, LAMBDA a : DateOf(a.created_at) = DateOf(t))

StatsQueries == {"total", "today", "byAction", "last7Days"}

\* Database.db before connect(), and the handle sqlite3.Database constructs
NoConnection == "null"
Handle == "Database"

\* ---------------------------------------------------------------- state
VARIABLES
    todos,        \* table todos: id -> row
    nextTodoId,   \* AUTOINCREMENT counter of todos
    activities,   \* table activities, in id order
    nextActId,    \* AUTOINCREMENT counter of activities
    now,          \* the store clock
    inflight,     \* handlers waiting for a store callback
    ncalls,       \* requests issued so far
    resp,         \* the last response sent
    appended,     \* every activity createActivity stored, with the call it came from
    db,           \* Database.db: what getConnection() returns
    connecting,   \* how far Database.connect() has got
    listening,    \* app.listen has been called
    exitCode,     \* the code the process ended with: {} while the process runs
    shutdown      \* how far the SIGINT handler has got

vars ==
    <<todos, nextTodoId, activities, nextActId, now, inflight, ncalls, resp, appended,
      db, connecting, listening, exitCode, shutdown>>
store == <<todos, nextTodoId, activities, nextActId, appended>>
database == <<db, connecting>>
process == <<listening, exitCode, shutdown>>

BlankCall ==
    [cid |-> 0, op |-> "", pc |-> "", receiver |-> "", id |-> 0, title |-> JUndef,
     description |-> JUndef, completed |-> JUndef, page |-> 0, limit |-> 0,
     todo_id |-> NullId, cur |-> NoRow, payload |-> NoPayload, newTodo |-> <<>>,
     inserted |-> 0, logged |-> "none", resolved |-> 0, rows |-> <<>>, pending |-> {},
     total |-> 0, today |-> 0, byAction |-> {}, last7Days |-> <<>>]

BlankResp ==
    [cid |-> 0, op |-> "", status |-> 0, error |-> "", message |-> "", obj |-> <<>>,
     todos |-> <<>>, rows |-> <<>>, page |-> 0, limit |-> 0, total |-> 0, pages |-> 0, today |-> 0,
     byAction |-> {}, last7Days |-> <<>>, deletedCount |-> 0, call |-> BlankCall]

\* res.status(code).json(...) of the handler running call c
Reply(c, status) == [BlankResp EXCEPT !.cid = c.cid, !.op = c.op, !.status = status, !.call = c]
Fail(c, status, msg) == [Reply(c, status) EXCEPT !.error = msg]
StoreError == "SQLITE_ERROR"

\* the response after `await this.logActivity(...)`
SuccessReply(c) ==
    CASE c.op = "createTodo" ->
            [Reply(c, 201) EXCEPT !.obj = c.newTodo, !.message = "Todo created successfully"]
      [] c.op = "updateTodo" -> [Reply(c, 200) EXCEPT !.message = "Todo updated successfully"]
      [] OTHER -> [Reply(c, 200) EXCEPT !.message = "Todo deleted successfully"]

\* request inputs
Titles == {JUndef, JStr(<<>>), JStr(<<" ">>), JStr(<<" ", "b">>)}
Descriptions == {JUndef, JNull, JStr(<<"x", " ">>)}
Completeds == {JUndef, JBool(TRUE), JBool(FALSE)}
\* req.body of createTodo: every title, and the valid one with every description
CreateBodies ==
    {b \in Titles \X Descriptions : b[1] = JStr(<<" ", "b">>) \/ b[2] = JUndef}
\* req.body of updateTodo: the bodies that supply at most one member, and three
\* that supply several
UpdateBodies ==
    {b \in Titles \X Descriptions \X Completeds :
        Cardinality({i \in 1..3 : b[i] # JUndef}) <= 1}
    \cup {<<JStr(<<" ", "b">>), JStr(<<"x", " ">>), JBool(TRUE)>>,
          <<JStr(<<" ", "b">>), JUndef, JBool(FALSE)>>,
          <<JStr(<<" ">>), JStr(<<"x", " ">>), JBool(FALSE)>>}
MaxReqId == 2
ReqIds == 1..MaxReqId

\* The database file outlives the process: the store starts empty, or as an
\* earlier run left it after creating todo "a" and marking it completed.
SeedRow == [NewTodoRow(1, JStr(<<"a">>), JUndef, 0) EXCEPT !.completed = 1]
SeedActivities ==
    << ActivityRow(1, CreatePayload(ControllerLastID(1), JStr(<<"a">>), JUndef), 0),
       ActivityRow(2, UpdatePayload(1, NewTodoRow(1, JStr(<<"a">>), JUndef, 0),
                                    JUndef, JUndef, JBool(TRUE)), 0) >>

Init ==
    /\ \/ /\ todos = <<>>
          /\ nextTodoId = 1
          /\ activities = <<>>
          /\ nextActId = 1
       \/ /\ todos = (1 :> SeedRow)
          /\ nextTodoId = 2
          /\ activities = SeedActivities
          /\ nextActId = 3
    /\ now = 0
    /\ inflight = {}
    /\ ncalls = 0
    /\ resp = BlankResp
    /\ appended = <<>>
    /\ db = NoConnection
    /\ connecting = "idle"
    /\ listening = FALSE
    /\ exitCode = {}
    /\ shutdown = "none"

\* ------------------------------------------------------- Database.connect
\* new sqlite3.Database(...) returns the handle, which is assigned to this.db
\* before the open callback runs
Connect ==
    /\ connecting = "idle"
    /\ db' = Handle
    /\ connecting' = "open"
    /\ UNCHANGED <<store, now, inflight, ncalls, resp, process>>

\* the process runs until process.exit is called
Running == exitCode = {}
\* (mutant) startServer without its try / catch: a rejection of connect() is
\* left unhandled and app.listen is reached all the same
AfterConnectUncaught(state) ==
    /\ listening' = (state \in {"resolved", "openFailed", "tablesFailed"})
    /\ exitCode' = exitCode

\* startServer after `await database.connect()` has settled: app.listen when it
\* resolved, process.exit(1) from the catch block when it rejected
AfterConnect(state) ==
    /\ listening' = (state = "resolved")
    /\ exitCode' = IF state \in {"openFailed", "tablesFailed"} THEN {1} ELSE exitCode

\* the open callback: an error rejects connect(), otherwise initializeTables starts
Opened ==
    /\ Running
    /\ connecting = "open"
    /\ \E ok \in BOOLEAN : connecting' = IF ok THEN "todos" ELSE "openFailed"
    /\ AfterConnect(connecting')
    /\ UNCHANGED <<store, now, inflight, ncalls, resp, db, shutdown>>

\* initializeTables: CREATE TABLE IF NOT EXISTS todos, then activities; either
\* failure rejects connect()
TablesReady(table) ==
    /\ Running
    /\ connecting = table
    /\ \E ok \in BOOLEAN :
          connecting' = IF ~ok THEN "tablesFailed"
                        ELSE IF table = "todos" THEN "activities" ELSE "resolved"
    /\ AfterConnect(connecting')
    /\ UNCHANGED <<store, now, inflight, ncalls, resp, db, shutdown>>

\* Database.getConnection
GetConnection == db

\* startServer: app.listen runs once connect() has resolved
Listening == listening /\ Running

\* ------------------------------------------------------------ SIGINT handler
\* the handler calls database.close(): with a handle it waits for db.close,
\* without one close() resolves at once and the handler exits with 0.  Signals
\* are delivered once the main module has run, that is after connect() was called.
Sigint ==
    /\ Running
    /\ connecting # "idle"
    /\ shutdown = "none"
    /\ IF db = NoConnection
       THEN shutdown' = "closed" /\ exitCode' = {0}
       ELSE shutdown' = "closing" /\ exitCode' = exitCode
    /\ UNCHANGED <<store, now, inflight, ncalls, resp, database, listening>>
\* process.exit(0) after close() resolved, process.exit(1) from the catch block
ShutdownExitCode(ok) == IF ok THEN {0} ELSE {1}

\* the callback of db.close settles close(), and the handler exits
Closed ==
    /\ Running
    /\ shutdown = "closing"
    /\ \E ok \in BOOLEAN :
          /\ shutdown' = IF ok THEN "closed" ELSE "closeFailed"
          /\ exitCode' = ShutdownExitCode(ok)
    /\ UNCHANGED <<store, now, inflight, ncalls, resp, database, listening>>

\* How a handler is invoked.  routes/todoRoutes.js hands the methods to the router
\* as plain functions, so a request that comes through server.js calls them with
\* `this` undefined; a caller that holds the controller calls them as its methods.
Unbound == "undefined"
Controller == "TodoController"
Receivers == {Unbound, Controller}

NewCall(op) == [BlankCall EXCEPT !.cid = ncalls + 1, !.op = op]
Issue == Listening /\ ncalls < MaxCalls /\ ncalls' = ncalls + 1
CanWait == Cardinality(inflight) < MaxInflight
\* the handler hands a statement to the store and returns to the event loop
Queue(c, pc) == CanWait /\ inflight' = inflight \cup {[c EXCEPT !.pc = pc]} /\ UNCHANGED resp
\* the store runs the statement call c waits for and calls its callback
Waiting(c, op, pc) == Running /\ c \in inflight /\ c.op = op /\ c.pc = pc
Done(c, r) == inflight' = inflight \ {c} /\ resp' = r
Goto(c, d) == inflight' = (inflight \ {c}) \cup {d} /\ UNCHANGED resp

\* an async callback that throws rejects a promise nobody handles: the request
\* gets no response and Node ends the process with exit code 1
Uncaught(c) ==
    /\ inflight' = inflight \ {c}
    /\ exitCode' = {1}
    /\ UNCHANGED <<resp, listening, shutdown>>

\* server.js mounts only /api/todos: a request for a path of the activity router
\* falls through to the 404 handler, and no handler runs
RouteNotFound ==
    /\ resp' = Fail(NewCall("notFound"), 404, "Route not found")
    /\ UNCHANGED inflight

\* a request for a handler of the activity controller: through server.js, or
\* the handler called on the controller, which hands its statement to the store
ActivityCall(receiver, c, pc) == IF receiver = Unbound THEN RouteNotFound ELSE Queue(c, pc)

\* (mutant) a failed statement still goes on to logActivity
WriteFailedStillLogs(c) == Goto(c, [c EXCEPT !.pc = "append"])

\* (mutant) the response sent in the turn of the write callback and logActivity
\* never called
LogActivitySkipped(c, d) ==
    /\ inflight' = inflight \ {c}
    /\ resp' = SuccessReply(d)

\* await this.logActivity(...): createActivity hands its INSERT to the store and
\* the callback is suspended until logActivity has returned
AwaitLogActivity(c, d) == Goto(c, d)

\* the callback of the INSERT / UPDATE / DELETE statement got an error: 500 with
\* the store's message, and the handler returns
WriteFailed(c) == Done(c, Fail(c, 500, StoreError))

\* ------------------------------------------------ TodoController.getAllTodos
GetAllTodos ==
    /\ Issue
    /\ Queue(NewCall("getAllTodos"), "read")
    /\ UNCHANGED <<store, now, database, process>>

\* the rows of table todos in rowid order
TableRows(ts, n) ==
    SelectSeq([i \in 1..n |-> IF i \in DOMAIN ts THEN ts[i] ELSE NoRow],
              LAMBDA r : r.id # 0)

\* SELECT * FROM todos ORDER BY created_at DESC runs; its callback answers
GetAllTodosRead(c) ==
    /\ Waiting(c, "getAllTodos", "read")
    /\ \E ok \in BOOLEAN :
        IF ~ok THEN Done(c, Fail(c, 500, StoreError))
        ELSE \E rows \in Ordered(TableRows(todos, nextTodoId - 1)) :
                Done(c, [Reply(c, 200) EXCEPT !.todos = rows])
    /\ UNCHANGED <<store, now, database, process, ncalls>>

\* ------------------------------------------------ TodoController.getTodoById
GetTodoById(id) ==
    /\ Issue
    /\ Queue([NewCall("getTodoById") EXCEPT !.id = id], "read")
    /\ UNCHANGED <<store, now, database, process>>

\* SELECT * FROM todos WHERE id = ? runs; its callback answers
GetTodoByIdRead(c) ==
    /\ Waiting(c, "getTodoById", "read")
    /\ \E ok \in BOOLEAN :
        Done(c, IF ~ok THEN Fail(c, 500, StoreError)
                ELSE IF c.id \notin DOMAIN todos THEN Fail(c, 404, "Todo not found")
                ELSE [Reply(c, 200) EXCEPT !.obj = RowObj(todos[c.id])])
    /\ UNCHANGED <<store, now, database, process, ncalls>>

\* ------------------------------------------------ TodoController.createTodo
\* validation, then the INSERT is handed to the store
CreateTodo(receiver, title, description) ==
    /\ Issue
    /\ LET c == [NewCall("createTodo") EXCEPT
                     !.receiver = receiver, !.title = title, !.description = description]
       IN IF TitleInvalid(title)
          THEN resp' = Fail(c, 400, "Title is required") /\ UNCHANGED inflight
          ELSE Queue(c, "insert")
    /\ UNCHANGED <<store, now, database, process>>

\* the INSERT runs; its callback reads this.lastID, builds newTodo and calls
\* this.logActivity
CreateInsert(c) ==
    /\ Waiting(c, "createTodo", "insert")
    /\ \E ok \in BOOLEAN :
        IF ~ok THEN WriteFailed(c) /\ UNCHANGED <<todos, nextTodoId, process>>
        ELSE LET rowId == AssignedId(DOMAIN todos, nextTodoId)
                 todoId == ControllerLastID(rowId)
             IN /\ todos' = todos @@ (rowId :> NewTodoRow(rowId, c.title, c.description, now))
                /\ nextTodoId' = nextTodoId + 1
                /\ IF c.receiver = Unbound THEN Uncaught(c)
                   ELSE /\ AwaitLogActivity(c, [c EXCEPT
                                !.pc = "append", !.inserted = rowId,
                                !.newTodo = NewTodo(todoId, c.title, c.description),
                                !.payload = CreatePayload(todoId, c.title, c.description)])
                        /\ UNCHANGED process
    /\ UNCHANGED <<activities, nextActId, appended, now, database, ncalls>>

\* ------------------------------------------------ TodoController.updateTodo
\* the SELECT of the current row is handed to the store
UpdateTodo(receiver, id, title, description, completed) ==
    /\ Issue
    /\ Queue([NewCall("updateTodo") EXCEPT
                  !.receiver = receiver, !.id = id, !.title = title,
                  !.description = description, !.completed = completed], "read")
    /\ UNCHANGED <<store, now, database, process>>

\* the SELECT runs; its callback compares the body with the row and hands the
\* UPDATE to the store
UpdateRead(c) ==
    /\ Waiting(c, "updateTodo", "read")
    /\ \E ok \in BOOLEAN :
        IF ~ok THEN Done(c, Fail(c, 500, StoreError))
        ELSE IF c.id \notin DOMAIN todos THEN Done(c, Fail(c, 404, "Todo not found"))
        ELSE IF c.title # JUndef /\ TitleInvalid(c.title)
        THEN Done(c, Fail([c EXCEPT !.cur = todos[c.id]], 400, "Title cannot be empty"))
        ELSE IF Changes(todos[c.id], c.title, c.description, c.completed) = <<>>
        THEN Done(c, Fail([c EXCEPT !.cur = todos[c.id]], 400, "No changes detected"))
        ELSE Goto(c, [c EXCEPT !.pc = "write", !.cur = todos[c.id]])
    /\ UNCHANGED <<store, now, database, process, ncalls>>

\* the UPDATE runs (on whatever row has the id now); its callback calls
\* this.logActivity
UpdateWrite(c) ==
    /\ Waiting(c, "updateTodo", "write")
    /\ \E ok \in BOOLEAN :
        IF ~ok THEN WriteFailed(c) /\ UNCHANGED <<todos, process>>
        ELSE /\ todos' = [k \in DOMAIN todos |->
                            IF k = c.id
                            THEN UpdatedRow(todos[k], c.cur, c.title, c.description, c.completed, now)
                            ELSE todos[k]]
             /\ IF c.receiver = Unbound THEN Uncaught(c)
                ELSE /\ AwaitLogActivity(c, [c EXCEPT
                             !.pc = "append",
                             !.payload = UpdatePayload(c.id, c.cur, c.title, c.description,
                                                       c.completed)])
                     /\ UNCHANGED process
    /\ UNCHANGED <<nextTodoId, activities, nextActId, appended, now, database, ncalls>>

\* ------------------------------------------------ TodoController.deleteTodo
\* the SELECT of the row is handed to the store
DeleteTodo(receiver, id) ==
    /\ Issue
    /\ Queue([NewCall("deleteTodo") EXCEPT !.receiver = receiver, !.id = id], "read")
    /\ UNCHANGED <<store, now, database, process>>

\* the SELECT runs; its callback hands the DELETE to the store
DeleteRead(c) ==
    /\ Waiting(c, "deleteTodo", "read")
    /\ \E ok \in BOOLEAN :
        IF ~ok THEN Done(c, Fail(c, 500, StoreError))
        ELSE IF c.id \notin DOMAIN todos THEN Done(c, Fail(c, 404, "Todo not found"))
        ELSE Goto(c, [c EXCEPT !.pc = "write", !.cur = todos[c.id]])
    /\ UNCHANGED <<store, now, database, process, ncalls>>

\* the DELETE runs; its callback calls this.logActivity
DeleteWrite(c) ==
    /\ Waiting(c, "deleteTodo", "write")
    /\ \E ok \in BOOLEAN :
        IF ~ok THEN WriteFailed(c) /\ UNCHANGED <<todos, activities, process>>
        ELSE /\ todos' = WithoutTodo(todos, c.id)
             /\ activities' = ActivitiesAfterTodoDelete(activities, c.id)
             /\ IF c.receiver = Unbound THEN Uncaught(c)
                ELSE /\ AwaitLogActivity(c, [c EXCEPT !.pc = "append",
                                                      !.payload = DeletePayload(c.id, c.cur)])
                     /\ UNCHANGED process
    /\ UNCHANGED <<nextTodoId, nextActId, appended, now, database, ncalls>>
\* (mutant) logActivity without its catch: a rejection escapes into the callback
AfterLogActivityRethrows(c, ok) ==
    [c EXCEPT !.pc = IF ok THEN "respond" ELSE "thrown",
              !.logged = IF ok THEN "stored" ELSE "failed"]

\* ------------------------------------------------ TodoController.logActivity
\* what logActivity leaves behind once createActivity has settled: the catch
\* block swallows a rejection, and the handler goes on to its response
AfterLogActivity(c, ok) ==
    [c EXCEPT !.pc = "respond", !.logged = IF ok THEN "stored" ELSE "failed"]

\* `this.lastID` in createActivity's function callback: `this` is the statement
StatementLastID(stmtLastID) == stmtLastID

\* the id the INSERT of createActivity gives the new row
NewActivityId ==
    AssignedId({activities[i].id : i \in 1..Len(activities)}, nextActId)

\* createActivity's INSERT runs and its callback resolves or rejects the promise
\* logActivity awaits; in the same turn logActivity returns and the handler
\* sends its response (an error escaping from logActivity would reject the
\* promise of the write callback instead)
LogAppend(c) ==
    /\ Running /\ c \in inflight /\ c.pc = "append"
    /\ \E ok \in BOOLEAN :
        /\ IF ok
           THEN /\ activities' = Append(activities, ActivityRow(NewActivityId, c.payload, now))
                /\ nextActId' = nextActId + 1
                /\ appended' = Append(appended,
                                      [cid |-> c.cid, act |-> ActivityRow(NewActivityId, c.payload, now)])
           ELSE UNCHANGED <<activities, nextActId, appended>>
        /\ LET d == [AfterLogActivity(c, ok) EXCEPT
                        !.resolved = IF ok THEN StatementLastID(NewActivityId) ELSE 0]
           IN IF d.pc = "thrown" THEN Uncaught(c)
              ELSE Done(c, SuccessReply(d)) /\ UNCHANGED process
    /\ UNCHANGED <<todos, nextTodoId, now, database, ncalls>>

\* --------------------------------- ActivityController.getActivitiesByTodoId
GetActivitiesByTodoId(receiver, todoId) ==
    /\ Issue
    /\ ActivityCall(receiver, [NewCall("getActivitiesByTodoId") EXCEPT !.todo_id = todoId], "read")
    /\ UNCHANGED <<store, now, database, process>>

\* the query runs; its callback answers with the rows
GetActivitiesByTodoIdRead(c) ==
    /\ Waiting(c, "getActivitiesByTodoId", "read")
    /\ \E ok \in BOOLEAN :
        IF ~ok THEN Done(c, Fail(c, 500, StoreError))
        ELSE \E rows \in Ordered(Matching(activities, c.todo_id)) :
                Done(c, [Reply(c, 200) EXCEPT !.rows = JoinAll(todos, rows)])
    /\ UNCHANGED <<store, now, database, process, ncalls>>

\* --------------------------------------- ActivityController.getActivityById
GetActivityById(receiver, id) ==
    /\ Issue
    /\ ActivityCall(receiver, [NewCall("getActivityById") EXCEPT !.id = id], "read")
    /\ UNCHANGED <<store, now, database, process>>

\* ... WHERE a.id = ?
WithId(acts, id) == SelectSeq(acts, LAMBDA a : a.id = id)

\* the query runs; its callback answers with the row or 404
GetActivityByIdRead(c) ==
    /\ Waiting(c, "getActivityById", "read")
    /\ \E ok \in BOOLEAN :
        Done(c, IF ~ok THEN Fail(c, 500, StoreError)
                ELSE IF WithId(activities, c.id) = <<>> THEN Fail(c, 404, "Activity not found")
                ELSE [Reply(c, 200) EXCEPT !.rows = JoinAll(todos, WithId(activities, c.id))])
    /\ UNCHANGED <<store, now, database, process, ncalls>>

\* -------------------------------------- ActivityController.getAllActivities
\* the page query is handed to the store
GetAllActivities(receiver, page, limit, todo_id) ==
    /\ Issue
    /\ ActivityCall(receiver,
                    [NewCall("getAllActivities") EXCEPT
                        !.page = page, !.limit = limit, !.todo_id = todo_id], "page")
    /\ UNCHANGED <<store, now, database, process>>

\* the page query runs; its callback hands the count query to the store
ListPage(c) ==
    /\ Waiting(c, "getAllActivities", "page")
    /\ \E ok \in BOOLEAN :
        IF ~ok THEN Done(c, Fail(c, 500, StoreError))
        ELSE \E rows \in Ordered(Matching(activities, c.todo_id)) :
                Goto(c, [c EXCEPT
                    !.pc = "count",
                    !.rows = JoinAll(todos, Slice(rows, (c.page - 1) * c.limit, c.limit))])
    /\ UNCHANGED <<store, now, database, process, ncalls>>

\* the count query runs and its callback sends the page with its pagination
ListCount(c) ==
    /\ Waiting(c, "getAllActivities", "count")
    /\ \E ok \in BOOLEAN :
        IF ~ok THEN Done(c, Fail(c, 500, StoreError))
        ELSE LET total == Len(Matching(activities, c.todo_id))
             IN Done(c, [Reply(c, 200) EXCEPT
                            !.rows = c.rows, !.page = c.page, !.limit = c.limit,
                            !.total = total, !.pages = CeilDiv(total, c.limit)])
    /\ UNCHANGED <<store, now, database, process, ncalls>>

\* -------------------------------------- ActivityController.getActivityStats
\* the four queries are handed to the store together
GetActivityStats(receiver) ==
    /\ Issue
    /\ ActivityCall(receiver, [NewCall("getActivityStats") EXCEPT !.pending = StatsQueries],
                    "stats")
    /\ UNCHANGED <<store, now, database, process>>

\* .then(([total, today, byAction, byDate]) => res.json({...}))
StatsReply(c) ==
    [Reply(c, 200) EXCEPT !.total = c.total, !.today = c.today,
                          !.byAction = c.byAction, !.last7Days = c.last7Days]

\* one of the four queries runs; a failure rejects Promise.all and the catch
\* answers 500; the callback of the last of the four resolves Promise.all and
\* the response is sent in the same turn
StatsQuery(c, q) ==
    /\ Waiting(c, "getActivityStats", "stats")
    /\ q \in c.pending
    /\ \E ok \in BOOLEAN :
        IF ~ok THEN Done(c, Fail(c, 500, StoreError))
        ELSE LET d == [c EXCEPT
                         !.pending = @ \ {q},
                         !.total = IF q = "total" THEN Len(activities) ELSE @,
                         !.today = IF q = "today" THEN Today(activities, now) ELSE @,
                         !.byAction = IF q = "byAction" THEN ByAction(activities) ELSE @,
                         !.last7Days = IF q = "last7Days" THEN Last7Days(activities, now) ELSE @]
             IN IF d.pending = {} THEN Done(c, StatsReply(d)) ELSE Goto(c, d)
    /\ UNCHANGED <<store, now, database, process, ncalls>>

\* ---------------------------------------- ActivityController.deleteActivity
\* (mutant) the DELETE without its WHERE clause
WithoutActivityNoWhere(acts, id) == <<>>

\* DELETE FROM activities WHERE id = ?
WithoutActivity(acts, id) == SelectSeq(acts, LAMBDA a : a.id # id)

DeleteActivity(receiver, id) ==
    /\ Issue
    /\ ActivityCall(receiver, [NewCall("deleteActivity") EXCEPT !.id = id], "delete")
    /\ UNCHANGED <<store, now, database, process>>

\* the DELETE runs; its callback answers by this.changes
DeleteActivityRun(c) ==
    /\ Waiting(c, "deleteActivity", "delete")
    /\ LET kept == WithoutActivity(activities, c.id)
       IN \E ok \in BOOLEAN :
            IF ~ok THEN Done(c, Fail(c, 500, StoreError)) /\ UNCHANGED activities
            ELSE IF Len(kept) = Len(activities)
            THEN Done(c, Fail(c, 404, "Activity not found")) /\ UNCHANGED activities
            ELSE /\ activities' = kept
                 /\ Done(c, [Reply(c, 200) EXCEPT !.message = "Activity deleted successfully"])
    /\ UNCHANGED <<todos, nextTodoId, nextActId, appended, now, database, process, ncalls>>

\* ------------------------------------ ActivityController.clearAllActivities
\* (mutant) deletedCount read where `this` is not the statement
DeletedCountUnbound(acts) == 0

\* this.changes of DELETE FROM activities
DeletedCount(acts) == Len(acts)

ClearAllActivities(receiver) ==
    /\ Issue
    /\ ActivityCall(receiver, NewCall("clearAllActivities"), "delete")
    /\ UNCHANGED <<store, now, database, process>>

\* the DELETE runs; its callback answers with this.changes
ClearAllActivitiesRun(c) ==
    /\ Waiting(c, "clearAllActivities", "delete")
    /\ \E ok \in BOOLEAN :
        IF ~ok THEN Done(c, Fail(c, 500, StoreError)) /\ UNCHANGED activities
        ELSE /\ activities' = <<>>
             /\ Done(c, [Reply(c, 200) EXCEPT
                            !.message = "All activities cleared successfully",
                            !.deletedCount = DeletedCount(activities)])
    /\ UNCHANGED <<todos, nextTodoId, nextActId, appended, now, database, process, ncalls>>

\* ------------------------------------------------------------- store clock
Tick ==
    /\ Running
    /\ now < MaxClock
    /\ now' = now + 1
    /\ UNCHANGED <<store, inflight, ncalls, resp, database, process>>

\* ---------------------------------------------------------- specification
Next ==
    \/ Connect
    \/ Opened
    \/ \E table \in {"todos", "activities"} : TablesReady(table)
    \/ GetAllTodos
    \/ \E c \in inflight : GetAllTodosRead(c)
    \/ \E i \in ReqIds : GetTodoById(i)
    \/ \E c \in inflight : GetTodoByIdRead(c)
    \/ \E r \in Receivers, b \in CreateBodies : CreateTodo(r, b[1], b[2])
    \/ \E c \in inflight : CreateInsert(c)
    \/ \E r \in Receivers, i \in ReqIds, b \in UpdateBodies : UpdateTodo(r, i, b[1], b[2], b[3])
    \/ \E c \in inflight : UpdateRead(c)
    \/ \E c \in inflight : UpdateWrite(c)
    \/ \E r \in Receivers, i \in ReqIds : DeleteTodo(r, i)
    \/ \E c \in inflight : DeleteRead(c)
    \/ \E c \in inflight : DeleteWrite(c)
    \/ \E c \in inflight : LogAppend(c)
    \/ \E r \in Receivers, i \in ReqIds : GetActivitiesByTodoId(r, i)
    \/ \E c \in inflight : GetActivitiesByTodoIdRead(c)
    \/ \E r \in Receivers, i \in ReqIds : GetActivityById(r, i)
    \/ \E c \in inflight : GetActivityByIdRead(c)
    \/ \E r \in Receivers, p \in 1..MaxPage, l \in 1..MaxLimit, i \in {NullId} \cup ReqIds :
          GetAllActivities(r, p, l, i)
    \/ \E c \in inflight : ListPage(c)
    \/ \E c \in inflight : ListCount(c)
    \/ \E r \in Receivers : GetActivityStats(r)
    \/ \E c \in inflight, q \in StatsQueries : StatsQuery(c, q)
    \/ \E r \in Receivers, i \in ReqIds : DeleteActivity(r, i)
    \/ \E c \in inflight : DeleteActivityRun(c)
    \/ \E r \in Receivers : ClearAllActivities(r)
    \/ \E c \in inflight : ClearAllActivitiesRun(c)
    \/ Tick

Spec == Init /\ [][Next]_vars

\* The life of the process: startup, requests served while it listens (reads
\* of a todo stand for them), SIGINT at any moment after startup.
NextLifecycle ==
    \/ Connect
    \/ Opened
    \/ \E table \in {"todos", "activities"} : TablesReady(table)
    \/ Sigint
    \/ Closed
    \/ \E i \in ReqIds : GetTodoById(i)
    \/ \E c \in inflight : GetTodoByIdRead(c)
    \/ Tick

LifecycleSpec == Init /\ [][NextLifecycle]_vars

\* Statistics over a log that spans more days than the last7Days query keeps:
\* the store as earlier runs left it after one createTodo on each of the days
\* in a set of at least MinStatDays days (two on the last of them, one tick
\* apart, or one), the server listening; stats requests interleave with
\* deleteActivity and clearAllActivities, each through server.js or called on
\* the controller.
MaxStatDay == 7
MinStatDays == 6

StatDaySets == {D \in SUBSET (0..MaxStatDay) : Cardinality(D) >= MinStatDays}

\* the first clock value of each day of D, in ascending order
RECURSIVE DaysAsc(_, _)
DaysAsc(D, d) ==
    IF d > MaxStatDay THEN <<>>
    ELSE (IF d \in D THEN <<d * TicksPerDay>> ELSE <<>>) \o DaysAsc(D, d + 1)

\* the clock values of the createTodo calls: one per day, and when twice is set
\* a second one on the last day, one tick after the first
StatDays(D, twice) ==
    LET ds == DaysAsc(D, 0) IN IF twice THEN Append(ds, ds[Len(ds)] + 1) ELSE ds

InitStats ==
    /\ \E D \in StatDaySets, twice \in BOOLEAN :
          LET ds == StatDays(D, twice)
          IN /\ todos = [i \in 1..Len(ds) |-> NewTodoRow(i, JStr(<<"a">>), JUndef, ds[i])]
             /\ nextTodoId = Len(ds) + 1
             /\ activities =
                   [i \in 1..Len(ds) |->
                       ActivityRow(i, CreatePayload(ControllerLastID(i), JStr(<<"a">>), JUndef),
                                   ds[i])]
             /\ nextActId = Len(ds) + 1
             /\ now = ds[Len(ds)]
    /\ inflight = {}
    /\ ncalls = 0
    /\ resp = BlankResp
    /\ appended = <<>>
    /\ db = Handle
    /\ connecting = "resolved"
    /\ listening = TRUE
    /\ exitCode = {}
    /\ shutdown = "none"

NextStats ==
    \/ \E r \in Receivers : GetActivityStats(r)
    \/ \E c \in inflight, q \in StatsQueries : StatsQuery(c, q)
    \/ \E r \in Receivers, i \in ReqIds : DeleteActivity(r, i)
    \/ \E c \in inflight : DeleteActivityRun(c)
    \/ \E r \in Receivers : ClearAllActivities(r)
    \/ \E c \in inflight : ClearAllActivitiesRun(c)

StatsSpec == InitStats /\ [][NextStats]_vars

\* =================================================================== claims
MutationOps == {"createTodo", "updateTodo", "deleteTodo"}
SuccessStatus(op) == IF op = "createTodo" THEN 201 ELSE 200
Sent(op) == resp' # resp /\ resp'.op = op
AppendedBy(cid) == SelectSeq(appended, LAMBDA e : e.cid = cid)

\* the append of call c settles in this step
Settles(c) == c.op \in MutationOps /\ c.pc = "append" /\ c \notin inflight'

\* query q of stats call c runs in this step and succeeds; StatsAfter(c) then
\* holds the results the call has so far: the call as it waits on, or the
\* response when q was the last of the four
StatsRan(c, q) ==
    /\ c.op = "getActivityStats" /\ q \in c.pending
    /\ \/ \E d \in inflight' : d.cid = c.cid /\ q \notin d.pending
       \/ c.pending = {q} /\ c \notin inflight' /\ resp'.cid = c.cid /\ resp'.status = 200
StatsAfter(c) ==
    IF \E d \in inflight' : d.cid = c.cid
    THEN CHOOSE d \in inflight' : d.cid = c.cid
    ELSE resp'

RECURSIVE SumCounts(_)
SumCounts(S) ==
    IF S = {} THEN 0 ELSE LET e == CHOOSE x \in S : TRUE IN e.count + SumCounts(S \ {e})

\* C1: when the primary write of createTodo, updateTodo or deleteTodo has
\* succeeded and the activity append fails, the call is answered in that very
\* step with the success response without an error, the todo table is not
\* touched by the failure (no rollback) and the process runs on.
C1_LogFailureSwallowed ==
    [][ \A c \in inflight :
           (Settles(c) /\ appended' = appended)
              => /\ resp' # resp /\ resp'.cid = c.cid
                 /\ resp'.call.logged = "failed"
                 /\ resp'.status = SuccessStatus(c.op)
                 /\ resp'.error = ""
                 /\ resp'.message # ""
                 /\ todos' = todos
                 /\ exitCode' = exitCode
      ]_vars

\* C1 witness: an update whose append failed was answered with success and the
\* new title is in the store.
C1_Witness ==
    /\ resp.op = "updateTodo" /\ resp.status = 200 /\ resp.call.logged = "failed"
    /\ resp.call.id \in DOMAIN todos
    /\ todos[resp.call.id].title = <<"b">>
    /\ resp.call.cur.title = <<"a">>

\* C2: the response does not wait for the append: whenever the append of a
\* successful mutation is still outstanding, a step can send the call's
\* success response and leave the append outstanding.
C2_ResponseDecoupled ==
    \A c \in inflight :
        (Running /\ c.op \in MutationOps /\ c.pc = "append")
           => ENABLED (/\ Next
                       /\ resp' # resp /\ resp'.cid = c.cid
                       /\ resp'.status = SuccessStatus(c.op)
                       /\ resp'.call.logged = "none")

\* C3 (as stated): a createTodo whose INSERT stored the row goes on to append
\* its activity; no call ever appends two activities; and a createTodo answered
\* with 201 whose append did not fail has appended exactly one activity: a
\* CREATE with old_value NULL and new_value the JSON text of the snapshot in the
\* response.
C3_ExactlyOneCreate ==
    [][ /\ \A c \in inflight :
              (c.op = "createTodo" /\ c.pc = "insert" /\ c \notin inflight'
               /\ nextTodoId' # nextTodoId)
                 => \E d \in inflight' : d.cid = c.cid /\ d.pc = "append"
        /\ \A k \in 1..ncalls : Len(AppendedBy(k)) <= 1
        /\ (resp.op = "createTodo" /\ resp.status = 201 /\ resp.call.logged = "stored")
              => /\ Len(AppendedBy(resp.cid)) = 1
                 /\ AppendedBy(resp.cid)[1].act.action = "CREATE"
                 /\ AppendedBy(resp.cid)[1].act.old_value = NullText
                 /\ AppendedBy(resp.cid)[1].act.new_value = Stringify(resp.obj)
                 /\ Keys(resp.obj) = {"id", "title", "description", "completed"}
      ]_vars

\* C4: the id in the 201 response of createTodo is the id the store gave the
\* inserted row, and the CREATE activity carries the same id as todo_id.
C4_ReturnsStoreId ==
    (resp.op = "createTodo" /\ resp.status = 201)
       => /\ Lookup(resp.obj, "id") = JNum(resp.call.inserted)
          /\ \A i \in 1..Len(AppendedBy(resp.cid)) :
                AppendedBy(resp.cid)[i].act.todo_id = resp.call.inserted

\* C5: the description of an UPDATE activity is the ", "-joined list of the
\* change lines of exactly the fields that were supplied and differ from the
\* row updateTodo loaded, in the order title, description, status.
C5_Expected(cur, t, d, k) ==
    LET newTitle == Trim(StrOf(t))
        newDesc == IF d \in {JNull, JStr(<<>>)} THEN <<>> ELSE Trim(StrOf(d))
        cand == << [on |-> t # JUndef /\ newTitle # cur.title,
                    line |-> <<"Title changed from \"">> \o cur.title
                             \o <<"\" to \"">> \o newTitle \o <<"\"">>],
                   [on |-> d # JUndef /\ newDesc # cur.description,
                    line |-> <<"Description changed from \"">> \o cur.description
                             \o <<"\" to \"">> \o newDesc \o <<"\"">>],
                   [on |-> k # JUndef /\ (k = JBool(TRUE)) # (cur.completed = 1),
                    line |-> <<"Status changed from ",
                               IF cur.completed = 1 THEN "completed" ELSE "pending",
                               " to ",
                               IF k = JBool(TRUE) THEN "completed" ELSE "pending">>] >>
        sel == SelectSeq(cand, LAMBDA x : x.on)
    IN Join([i \in 1..Len(sel) |-> sel[i].line], <<", ">>)

C5_DescriptionListsChangedFields ==
    /\ \A c \in inflight :
          (c.op = "updateTodo" /\ c.pc = "append")
             => c.payload.description = C5_Expected(c.cur, c.title, c.description, c.completed)
    /\ (resp.op = "updateTodo" /\ resp.status = 200)
          => \A i \in 1..Len(AppendedBy(resp.cid)) :
                /\ AppendedBy(resp.cid)[i].act.action = "UPDATE"
                /\ AppendedBy(resp.cid)[i].act.description =
                      C5_Expected(resp.call.cur, resp.call.title,
                                  resp.call.description, resp.call.completed)
                /\ AppendedBy(resp.cid)[i].act.description # <<>>

\* C5 witness: an update that supplied all three fields, changed title and
\* description and left completed as it was, has its UPDATE activity stored.
C5_Witness ==
    /\ resp.op = "updateTodo" /\ resp.status = 200 /\ resp.call.logged = "stored"
    /\ resp.call.cur.title = <<"a">> /\ resp.call.title = JStr(<<" ", "b">>)
    /\ resp.call.description = JStr(<<"x", " ">>)
    /\ resp.call.completed = JBool(TRUE) /\ resp.call.cur.completed = 1

\* C6: an updateTodo on an existing todo whose supplied fields all equal the
\* row its read finds (strings trimmed, a falsy description taken as empty,
\* completed taken as two-valued), or that supplies nothing, is answered 400
\* "No changes detected" unless the read itself failed; it changes neither
\* table and never reaches the UPDATE statement.
C6_NothingToChange(row, t, d, k) ==
    /\ t = JUndef \/ (Truthy(t) /\ Trim(StrOf(t)) = row.title)
    /\ d = JUndef \/ (IF d \in {JNull, JStr(<<>>)} THEN <<>> ELSE Trim(StrOf(d))) = row.description
    /\ k = JUndef \/ ((k = JBool(TRUE)) <=> (row.completed = 1))

C6_NoChangeRejected ==
    [][ /\ \A c \in inflight :
              (c.op = "updateTodo" /\ c.pc = "read" /\ c.id \in DOMAIN todos
               /\ C6_NothingToChange(todos[c.id], c.title, c.description, c.completed))
                 => /\ \A d \in inflight' : d.cid = c.cid => d = c
                    /\ (resp' # resp /\ resp'.cid = c.cid /\ resp'.status # 500)
                          => /\ resp'.status = 400
                             /\ resp'.error = "No changes detected"
                             /\ todos' = todos
                             /\ activities' = activities
        /\ (Sent("updateTodo") /\ resp'.error = "No changes detected")
              => (todos' = todos /\ activities' = activities)
      ]_vars

\* C6 witness: a padded title equal to the stored one after trimming, together
\* with an equal completed, was rejected with "No changes detected".
C6_Witness ==
    /\ resp.op = "updateTodo" /\ resp.status = 400 /\ resp.error = "No changes detected"
    /\ resp.call.title = JStr(<<" ", "b">>)
    /\ resp.call.completed = JBool(FALSE)
    /\ resp.call.id \in DOMAIN todos
    /\ todos[resp.call.id].updated_at = todos[resp.call.id].created_at

\* C7: removing a todo row leaves the activity log as it is (todo_id included);
\* getActivitiesByTodoId(id) returns every activity whose todo_id is id, and a
\* list filtered by id returns them from its offset on, up to limit; in both, the
\* joined title is null when the todo no longer exists.
C7_ActivitiesSurviveTodoDelete ==
    [][ /\ (DOMAIN todos' # DOMAIN todos /\ DOMAIN todos' \subseteq DOMAIN todos)
              => activities' = activities
        /\ (Sent("getActivitiesByTodoId") /\ resp'.status = 200)
              => LET id == resp'.call.todo_id
                     mine == {activities[j] : j \in {j \in 1..Len(activities) :
                                                       activities[j].todo_id = id}}
                 IN /\ {resp'.rows[i].act : i \in 1..Len(resp'.rows)} = mine
                    /\ Len(resp'.rows) = Cardinality(mine)
                    /\ id \notin DOMAIN todos
                          => \A i \in 1..Len(resp'.rows) : resp'.rows[i].todo_title = JNull
        /\ \A c \in inflight, d \in inflight' :
              (c.op = "getAllActivities" /\ c.pc = "page" /\ d.cid = c.cid
               /\ d.pc = "count" /\ d.todo_id # NullId)
                 => LET mine == {activities[j] : j \in {j \in 1..Len(activities) :
                                                   activities[j].todo_id = d.todo_id}}
                    IN /\ {d.rows[i].act : i \in 1..Len(d.rows)} \subseteq mine
                       /\ (d.page = 1 /\ d.limit >= Cardinality(mine))
                             => Len(d.rows) = Cardinality(mine)
                       /\ d.todo_id \notin DOMAIN todos
                             => \A i \in 1..Len(d.rows) : d.rows[i].todo_title = JNull
      ]_vars

\* C7 witness: todo 1 is gone and getActivitiesByTodoId(1) returned its earlier
\* UPDATE activity with a null title.
C7_Witness ==
    /\ resp.op = "getActivitiesByTodoId" /\ resp.status = 200
    /\ resp.call.todo_id = 1 /\ 1 \notin DOMAIN todos
    /\ \E i \in 1..Len(resp.rows) :
          resp.rows[i].act.action = "UPDATE" /\ resp.rows[i].todo_title = JNull

\* C8: in every list response pages is ceil(total / limit), and a page beyond
\* pages carries no activity.
C8_PageBeyondPagesIsEmpty ==
    (resp.op = "getAllActivities" /\ resp.status = 200)
       => /\ resp.pages * resp.limit >= resp.total
          /\ (resp.pages - 1) * resp.limit < resp.total
          /\ resp.page > resp.pages => resp.rows = <<>>

\* C9 (as stated): in every stats response the byAction counts sum to total.
C9_ByActionSumsToTotal ==
    (resp.op = "getActivityStats" /\ resp.status = 200)
       => SumCounts(resp.byAction) = resp.total

\* C9 (amended): byAction has exactly one entry per action present in the log
\* when the byAction query runs and its counts sum to the size of the log at
\* that moment; total is the size of the log when the total query runs; the
\* response carries both as the queries returned them.
C9_ByActionSumsToLogAtQuery ==
    [][ /\ \A c \in inflight :
              StatsRan(c, "byAction")
                 => LET got == StatsAfter(c).byAction
                    IN /\ SumCounts(got) = Len(activities)
                       /\ {e.action : e \in got} =
                             {activities[i].action : i \in 1..Len(activities)}
                       /\ \A e, f \in got : e.action = f.action => e = f
                       /\ \A e \in got : e.count >= 1
        /\ \A c \in inflight :
              StatsRan(c, "total") => StatsAfter(c).total = Len(activities)
        /\ \A c \in inflight :
              (Sent("getActivityStats") /\ resp'.cid = c.cid /\ resp'.status = 200)
                 => /\ Cardinality(c.pending) = 1
                    /\ "byAction" \notin c.pending => resp'.byAction = c.byAction
                    /\ "total" \notin c.pending => resp'.total = c.total
      ]_vars

\* C9 witness: a stats response with two actions whose counts sum to its total.
C9_Witness ==
    /\ resp.op = "getActivityStats" /\ resp.status = 200
    /\ Cardinality(resp.byAction) = 2
    /\ resp.total = 3
    /\ SumCounts(resp.byAction) = resp.total

\* C10: when deleteTodo's DELETE statement has run, the row is gone, and the
\* DELETE activity handed to the log has as old_value the row as it was in the
\* store just before the statement ran, new_value NULL and the description
\* 'Todo "<title>" was deleted'; a deleteTodo on an id without a row is answered
\* 404 and appends nothing.
C10_DeleteLogsRowJustDeleted ==
    [][ /\ \A c \in inflight, d \in inflight' :
              (c.op = "deleteTodo" /\ c.pc = "write" /\ d.cid = c.cid /\ d.pc = "append")
                 => /\ c.id \in DOMAIN todos
                    /\ c.id \notin DOMAIN todos'
                    /\ d.payload.action = "DELETE"
                    /\ d.payload.old_value = Stringify(RowObj(todos[c.id]))
                    /\ d.payload.new_value = NullText
                    /\ d.payload.description =
                          <<"Todo \"">> \o todos[c.id].title \o <<"\" was deleted">>
        /\ \A c \in inflight :
              (c.op = "deleteTodo" /\ c.pc = "read" /\ resp' # resp /\ resp'.cid = c.cid
               /\ resp'.status # 500)
                 => (resp'.status = 404 /\ c.id \notin DOMAIN todos
                     /\ activities' = activities)
      ]_vars

\* C11 (as stated): in every result of list and getActivitiesByTodoId an
\* activity appended later (larger id) comes before one appended earlier, also
\* when both carry the same created_at.
C11_MostRecentFirst ==
    (resp.op \in {"getAllActivities", "getActivitiesByTodoId"} /\ resp.status = 200)
       => \A i, j \in 1..Len(resp.rows) :
             i < j => resp.rows[i].act.id > resp.rows[j].act.id

\* C12: an updateTodo whose read succeeded is answered 404 "Todo not found"
\* when the read finds no row for the id, whatever the body; on an existing row a supplied
\* title that is empty after trimming is answered 400 "Title cannot be empty"
\* whatever else is supplied; neither reaches the UPDATE statement, changes a
\* table or ever appends an activity.
C12_TitleEmpty(t) == t # JUndef /\ (t \in {JNull, JStr(<<>>)} \/ Trim(StrOf(t)) = <<>>)

C12_UpdateRejectedBeforeWrite ==
    [][ /\ \A c \in inflight :
              (c.op = "updateTodo" /\ c.pc = "read" /\ resp' # resp /\ resp'.cid = c.cid
               /\ resp'.status # 500)
                 => /\ c.id \notin DOMAIN todos
                          => (resp'.status = 404 /\ resp'.error = "Todo not found")
                    /\ (c.id \in DOMAIN todos /\ C12_TitleEmpty(c.title))
                          => (resp'.status = 400 /\ resp'.error = "Title cannot be empty")
                    /\ todos' = todos /\ activities' = activities /\ appended' = appended
                    /\ \A d \in inflight' : d.cid # c.cid
        /\ \A c \in inflight, d \in inflight' :
              (c.op = "updateTodo" /\ c.pc = "read" /\ d.cid = c.cid /\ d.pc = "write")
                 => (c.id \in DOMAIN todos /\ ~C12_TitleEmpty(c.title))
        /\ (resp.op = "updateTodo" /\ resp.status \in {400, 404})
              => AppendedBy(resp.cid) = <<>>
      ]_vars

\* C12 witness: a whitespace title on an existing todo was rejected although
\* the description and completed supplied with it differ from the stored row.
C12_Witness ==
    /\ resp.op = "updateTodo" /\ resp.status = 400
    /\ resp.error = "Title cannot be empty"
    /\ resp.call.title = JStr(<<" ">>)
    /\ resp.call.description = JStr(<<"x", " ">>)
    /\ resp.call.completed = JBool(FALSE)
    /\ resp.call.id \in DOMAIN todos
    /\ todos[resp.call.id].completed = 1 /\ todos[resp.call.id].description = <<>>

\* C13: createTodo with a missing, empty or whitespace-only title is answered
\* 400 at once and changes nothing; with any other title the INSERT stores the
\* trimmed title, the trimmed description (empty when none is given) and
\* completed 0, and the 201 response carries the same title and description
\* with completed false.
C13_TitleMissing(t) == t \in {JUndef, JNull, JStr(<<>>)} \/ Trim(StrOf(t)) = <<>>
C13_Description(d) == IF d \in {JUndef, JNull, JStr(<<>>)} THEN <<>> ELSE Trim(StrOf(d))

C13_CreateValidatesAndTrims ==
    [][ /\ (Sent("createTodo") /\ ncalls' = ncalls + 1)
              => /\ C13_TitleMissing(resp'.call.title)
                 /\ resp'.status = 400 /\ resp'.error = "Title is required"
                 /\ todos' = todos /\ nextTodoId' = nextTodoId
                 /\ activities' = activities /\ appended' = appended
                 /\ inflight' = inflight
        /\ \A d \in inflight' :
              (d.op = "createTodo" /\ d.cid = ncalls + 1 /\ ncalls' = ncalls + 1)
                 => ~C13_TitleMissing(d.title)
        /\ \A c \in inflight, d \in inflight' :
              (c.op = "createTodo" /\ c.pc = "insert" /\ d.cid = c.cid /\ d.pc = "append")
                 => /\ DOMAIN todos' = DOMAIN todos \cup {nextTodoId}
                    /\ nextTodoId \notin DOMAIN todos
                    /\ todos'[nextTodoId].title = Trim(StrOf(c.title))
                    /\ todos'[nextTodoId].title # <<>>
                    /\ todos'[nextTodoId].description = C13_Description(c.description)
                    /\ todos'[nextTodoId].completed = 0
                    /\ Lookup(d.newTodo, "title") = JStr(todos'[nextTodoId].title)
                    /\ Lookup(d.newTodo, "description") = JStr(todos'[nextTodoId].description)
                    /\ Lookup(d.newTodo, "completed") = JBool(FALSE)
        /\ \A c \in inflight :
              (Sent("createTodo") /\ resp'.cid = c.cid /\ resp'.status = 201)
                 => resp'.obj = c.newTodo
        /\ (resp.op = "createTodo" /\ resp.status = 400) => AppendedBy(resp.cid) = <<>>
      ]_vars

\* C13 witness: a create with a padded title and a padded description was
\* answered 201 and the row holds both trimmed.
C13_Witness ==
    /\ resp.op = "createTodo" /\ resp.status = 201
    /\ resp.call.title = JStr(<<" ", "b">>) /\ resp.call.description = JStr(<<"x", " ">>)
    /\ resp.call.inserted \in DOMAIN todos
    /\ todos[resp.call.inserted].title = <<"b">>
    /\ todos[resp.call.inserted].description = <<"x">>
    /\ Lookup(resp.obj, "title") = JStr(<<"b">>)
    /\ Lookup(resp.obj, "description") = JStr(<<"x">>)

\* C14: when the INSERT, UPDATE or DELETE statement of a todo mutation fails,
\* the call is answered 500 with the store's message, no table changes and the
\* call never appends an activity; a call goes on to the append only from a
\* statement that ran (the new row is there, the updated row carries the new
\* updated_at, the deleted id is gone) and with the activity of that mutation.
C14_LogOnlyAfterWrite ==
    [][ /\ \A c \in inflight :
              (c.op \in MutationOps /\ c.pc \in {"insert", "write"}
               /\ resp' # resp /\ resp'.cid = c.cid)
                 => /\ resp'.status = 500 /\ resp'.error = StoreError
                    /\ todos' = todos /\ activities' = activities /\ appended' = appended
                    /\ \A d \in inflight' : d.cid # c.cid
        /\ \A c \in inflight, d \in inflight' :
              (c.op \in MutationOps /\ c.pc \in {"insert", "write"} /\ d.cid = c.cid
               /\ d # c)
                 => /\ d.pc = "append"
                    /\ d.payload.action =
                          (CASE c.op = "createTodo" -> "CREATE"
                             [] c.op = "updateTodo" -> "UPDATE"
                             [] OTHER -> "DELETE")
                    /\ c.op = "createTodo" => nextTodoId \in DOMAIN todos' \ DOMAIN todos
                    /\ (c.op = "updateTodo" /\ c.id \in DOMAIN todos)
                          => todos'[c.id].updated_at = now
                    /\ c.op = "deleteTodo" => c.id \notin DOMAIN todos'
        /\ (resp.op \in MutationOps /\ resp.status = 500) => AppendedBy(resp.cid) = <<>>
        /\ \A i \in 1..Len(appended) : appended[i].act.action \in {"CREATE", "UPDATE", "DELETE"}
      ]_vars

\* C14 witness: the UPDATE statement of an updateTodo failed: 500 with the
\* store's message, the row still as it was read, no activity for the call.
C14_Witness ==
    /\ resp.op = "updateTodo" /\ resp.status = 500 /\ resp.error = StoreError
    /\ resp.call.pc = "write"
    /\ resp.call.id \in DOMAIN todos /\ todos[resp.call.id] = resp.call.cur
    /\ AppendedBy(resp.cid) = <<>>

\* C15: when createActivity's INSERT succeeds the log grows by exactly one row,
\* at its end, holding the seven given fields, a fresh id and the current
\* timestamp, and the promise resolves with that id; when it fails the promise
\* rejects (the caller sees the failure) and the log and its counter are
\* unchanged.
C15_AppendOneOrReject ==
    [][ \A c \in inflight :
           Settles(c)
              => LET d == resp'.call
                 IN /\ d.cid = c.cid
                    /\ \/ /\ d.logged = "stored"
                          /\ Len(activities') = Len(activities) + 1
                          /\ SubSeq(activities', 1, Len(activities)) = activities
                          /\ LET row == activities'[Len(activities')]
                             IN /\ row.todo_id = c.payload.todo_id
                                /\ row.action = c.payload.action
                                /\ row.description = c.payload.description
                                /\ row.old_value = c.payload.old_value
                                /\ row.new_value = c.payload.new_value
                                /\ row.user_ip = c.payload.user_ip
                                /\ row.user_agent = c.payload.user_agent
                                /\ row.created_at = now
                                /\ row.id = d.resolved
                                /\ \A i \in 1..Len(activities) : activities[i].id < row.id
                       \/ /\ d.logged = "failed"
                          /\ activities' = activities /\ nextActId' = nextActId
                          /\ appended' = appended
      ]_vars

\* C15 witness: the append of an UPDATE activity resolved with the id of the
\* last row of the log, which holds the call's payload.
C15_Witness ==
    /\ resp.op = "updateTodo" /\ resp.status = 200
    /\ resp.call.logged = "stored" /\ resp.call.payload.action = "UPDATE"
    /\ Len(activities) >= 3
    /\ activities[Len(activities)].id = resp.call.resolved
    /\ activities[Len(activities)].new_value = resp.call.payload.new_value

\* C16: a deleteActivity answered 200 removed the one activity with that id
\* and nothing else; on an id that is not in the log it is answered 404 and
\* nothing changes; the todo table is never touched.
C16_DeleteActivityRemovesOne ==
    [][ Sent("deleteActivity")
           => /\ todos' = todos /\ nextTodoId' = nextTodoId /\ nextActId' = nextActId
              /\ resp'.status = 200
                    => \E k \in 1..Len(activities) :
                          /\ activities[k].id = resp'.call.id
                          /\ activities' = SubSeq(activities, 1, k - 1)
                                           \o SubSeq(activities, k + 1, Len(activities))
              /\ resp'.status # 200 => activities' = activities
              /\ resp'.status # 500
                    => (resp'.status = 404 /\ resp'.error = "Activity not found")
                       <=> (\A k \in 1..Len(activities) : activities[k].id # resp'.call.id)
      ]_vars

\* C16 witness: activity 1 was deleted and activity 2 is still in the log.
C16_Witness ==
    /\ resp.op = "deleteActivity" /\ resp.status = 200 /\ resp.call.id = 1
    /\ Len(activities) = 1 /\ activities[1] = SeedActivities[2]
    /\ todos = (1 :> SeedRow)

\* C17: a clearAllActivities answered 200 emptied the log, reports as
\* deletedCount the number of activities that were in it and leaves the todos
\* as they are; a list count and a stats total computed while the log is empty
\* are 0.
C17_ClearAllEmptiesLog ==
    [][ /\ (Sent("clearAllActivities") /\ resp'.status = 200)
              => /\ activities' = <<>>
                 /\ resp'.deletedCount = Len(activities)
                 /\ todos' = todos /\ nextTodoId' = nextTodoId
        /\ (Sent("clearAllActivities") /\ resp'.status # 200)
              => (activities' = activities /\ todos' = todos)
        /\ (Sent("getAllActivities") /\ resp'.status = 200 /\ activities = <<>>)
              => (resp'.total = 0 /\ resp'.pages = 0)
        /\ \A c \in inflight :
              (StatsRan(c, "total") /\ activities = <<>>) => StatsAfter(c).total = 0
      ]_vars

\* C17 witness: the two activities of the log were cleared, the todo is still
\* there.
C17_Witness ==
    /\ resp.op = "clearAllActivities" /\ resp.status = 200
    /\ resp.deletedCount = 2 /\ activities = <<>>
    /\ todos = (1 :> SeedRow)

\* C18: in every step an activity that stays in the log stays as it is, new
\* activities only come at the end with a larger id, an activity leaves the
\* log only in a deleteActivity or clearAllActivities answered 200, and a step
\* that changes the todo table changes nothing in the log.
C18_ActivitiesImmutable ==
    [][ /\ \A i \in 1..Len(activities), j \in 1..Len(activities') :
              activities'[j].id = activities[i].id => activities'[j] = activities[i]
        /\ \A j \in 1..Len(activities') :
              (\A i \in 1..Len(activities) : activities[i].id # activities'[j].id)
                 => /\ j = Len(activities')
                    /\ \A i \in 1..Len(activities) : activities[i].id < activities'[j].id
        /\ (\E i \in 1..Len(activities) :
               \A j \in 1..Len(activities') : activities'[j].id # activities[i].id)
              => (resp' # resp /\ resp'.op \in {"deleteActivity", "clearAllActivities"}
                  /\ resp'.status = 200)
        /\ todos' # todos => activities' = activities
      ]_vars

\* C18 witness: todo 1 was deleted and its DELETE activity appended; the UPDATE
\* activity logged for it earlier is in the log exactly as it was.
C18_Witness ==
    /\ 1 \notin DOMAIN todos
    /\ Len(activities) = 3
    /\ activities[2] = SeedActivities[2] /\ activities[2].todo_id = 1
    /\ activities[3].action = "DELETE"

\* C19 (as stated): when the UPDATE statement of updateTodo has run, the UPDATE
\* activity handed to the log has as old_value the row as it was before the
\* statement and as new_value that row with title, description and completed
\* as they are stored after it (completed as 0/1 or as false/true, updated_at
\* as before or as after).
C19_Merged(before, after) ==
    {Stringify(<< <<"id", JNum(before.id)>>, <<"title", JStr(after.title)>>,
                  <<"description", JStr(after.description)>>, <<"completed", k>>,
                  <<"created_at", JStr(TimeStr(before.created_at))>>,
                  <<"updated_at", JStr(TimeStr(u))>> >>) :
        k \in {JNum(after.completed), JBool(after.completed = 1)},
        u \in {before.updated_at, after.updated_at}}

C19_UpdateSnapshots ==
    [][ \A c \in inflight, d \in inflight' :
           (c.op = "updateTodo" /\ c.pc = "write" /\ d.cid = c.cid /\ d.pc = "append"
            /\ c.id \in DOMAIN todos)
              => /\ d.payload.action = "UPDATE"
                 /\ d.payload.old_value = Stringify(RowObj(todos[c.id]))
                 /\ d.payload.new_value \in C19_Merged(todos[c.id], todos'[c.id])
      ]_vars

\* C20 (as stated): after connect() rejected because the open failed,
\* getConnection() returns null.
C20_NoConnectionAfterOpenFailure ==
    connecting = "openFailed" => GetConnection = NoConnection

\* C21: the server listens, and serves requests, only once connect() has
\* resolved; when connect() rejects the process exits with code 1 and is not
\* listening; the SIGINT handler exits only when close() has settled, with 0
\* when it resolved and 1 when it rejected; once process.exit has been called
\* nothing happens any more.
C21_ConnectFailed(state) == state \in {"openFailed", "tablesFailed"}

C22_Matching(acts, f) ==
    {acts[i] : i \in {i \in 1..Len(acts) : f = NullId \/ acts[i].todo_id = f}}

\* position of a among the matching activities S, most recent first
C22_Position(S, a) ==
    1 + Cardinality({b \in S : (b.created_at > a.created_at)
                                  \/ (b.created_at = a.created_at /\ b.id < a.id)})

RECURSIVE C22_Pages(_, _, _, _)
C22_Pages(acts, f, l, p) ==
    IF p = 0 THEN <<>>
    ELSE C22_Pages(acts, f, l, p - 1)
         \o Slice(CHOOSE o \in Ordered(Matching(acts, f)) : TRUE, (p - 1) * l, l)

C22_PagesAreSlices ==
    [][ /\ \A c \in inflight, d \in inflight' :
              (c.op = "getAllActivities" /\ c.pc = "page" /\ d.cid = c.cid
               /\ d.pc = "count")
                 => LET S == C22_Matching(activities, d.todo_id)
                        first == (d.page - 1) * d.limit + 1
                        last == Min(d.page * d.limit, Cardinality(S))
                    IN /\ Len(d.rows) = (IF last >= first THEN last - first + 1 ELSE 0)
                       /\ Len(d.rows) <= d.limit
                       /\ \A i \in 1..Len(d.rows) :
                             /\ d.rows[i].act \in S
                             /\ C22_Position(S, d.rows[i].act) = first + i - 1
        /\ \A c \in inflight :
              (Sent("getAllActivities") /\ resp'.cid = c.cid /\ resp'.status = 200)
                 => /\ resp'.rows = c.rows /\ resp'.page = c.page /\ resp'.limit = c.limit
                    /\ resp'.total = Cardinality(C22_Matching(activities, c.todo_id))
        /\ (activities' # activities
            \/ \E c \in inflight : c.pc = "page" /\ c \notin inflight')
              => \A l \in 1..MaxLimit, f \in {NullId} \cup ReqIds :
                    LET S == C22_Matching(activities', f)
                        all == C22_Pages(activities', f, l, CeilDiv(Cardinality(S), l))
                    IN /\ Len(all) = Cardinality(S)
                       /\ {all[i] : i \in 1..Len(all)} = S
      ]_vars

\* C22 witness: page 2 of limit 1 over a log of two activities returned the
\* second position and reported total 2.
C22_Witness ==
    /\ resp.op = "getAllActivities" /\ resp.status = 200
    /\ resp.page = 2 /\ resp.limit = 1 /\ resp.total = 2
    /\ Len(resp.rows) = 1 /\ Len(activities) = 2
    /\ resp.rows[1].act \in {activities[1], activities[2]}

\* C23 (as stated): in every stats response last7Days has at most 7 entries
\* with distinct dates, most recent first, and today is at most total.
C23_Last7DaysAndToday ==
    (resp.op = "getActivityStats" /\ resp.status = 200)
       => /\ Len(resp.last7Days) <= 7
          /\ \A i, j \in 1..Len(resp.last7Days) :
                i < j => resp.last7Days[i].date > resp.last7Days[j].date
          /\ resp.today <= resp.total

\* C23 (amended): last7Days is what the log holds when its query runs: one
\* entry for each of the (at most 7) most recent dates with an activity, most
\* recent first, each with the number of activities of that date; today is the
\* number of activities of the log dated on the current day when its query
\* runs, hence at most the size of the log at that moment; the response carries
\* both as the queries returned them.
C23_Dates(acts) == {DateOf(acts[i].created_at) : i \in 1..Len(acts)}
C23_On(acts, d) == Cardinality({i \in 1..Len(acts) : DateOf(acts[i].created_at) = d})

C23_Last7DaysAtQuery ==
    [][ /\ \A c \in inflight :
              StatsRan(c, "last7Days")
                 => LET dates == C23_Dates(activities)
                        top == {x \in dates : Cardinality({y \in dates : y > x}) < 7}
                        l == StatsAfter(c).last7Days
                    IN /\ Len(l) = Cardinality(top) /\ Len(l) <= 7
                       /\ {l[i].date : i \in 1..Len(l)} = top
                       /\ \A i, j \in 1..Len(l) : i < j => l[i].date > l[j].date
                       /\ \A i \in 1..Len(l) :
                             l[i].count = C23_On(activities, l[i].date) /\ l[i].count >= 1
        /\ \A c \in inflight :
              StatsRan(c, "today")
                 => /\ StatsAfter(c).today = C23_On(activities, DateOf(now))
                    /\ StatsAfter(c).today <= Len(activities)
        /\ \A c \in inflight :
              (Sent("getActivityStats") /\ resp'.cid = c.cid /\ resp'.status = 200)
                 => /\ Cardinality(c.pending) = 1
                    /\ "last7Days" \notin c.pending => resp'.last7Days = c.last7Days
                    /\ "today" \notin c.pending => resp'.today = c.today
      ]_vars

\* C23 witness: over a log with activities on 8 dates, two of them today, the
\* response has 7 dates and today = 2.
C23_Witness ==
    /\ resp.op = "getActivityStats" /\ resp.status = 200
    /\ Cardinality(C23_Dates(activities)) = 8
    /\ Len(resp.last7Days) = 7
    /\ resp.last7Days[1] = [date |-> DateOf(now), count |-> 2]
    /\ resp.today = 2 /\ resp.total = 9

\* C24: when the UPDATE statement of updateTodo runs on an existing row, a
\* field that was supplied and differs from the row the handler had read takes
\* the proposed value and updated_at the current time; id, created_at and
\* every other field keep the value they have in the store at that moment
\* (also when another update changed them after the read), and no other row
\* changes.
C24_UpdateWritesOnlyChanges ==
    [][ \A c \in inflight, d \in inflight' :
           (c.op = "updateTodo" /\ c.pc = "write" /\ d.cid = c.cid /\ d.pc = "append")
              => /\ DOMAIN todos' = DOMAIN todos
                 /\ \A k \in DOMAIN todos : k # c.id => todos'[k] = todos[k]
                 /\ c.id \in DOMAIN todos
                       => LET old == todos[c.id]
                              new == todos'[c.id]
                              newDesc == IF c.description \in {JNull, JStr(<<>>)} THEN <<>>
                                         ELSE Trim(StrOf(c.description))
                          IN /\ new.id = old.id /\ new.created_at = old.created_at
                             /\ new.updated_at = now
                             /\ new.title =
                                   IF c.title # JUndef /\ Trim(StrOf(c.title)) # c.cur.title
                                   THEN Trim(StrOf(c.title)) ELSE old.title
                             /\ new.description =
                                   IF c.description # JUndef /\ newDesc # c.cur.description
                                   THEN newDesc ELSE old.description
                             /\ new.completed =
                                   IF c.completed # JUndef
                                      /\ (c.completed = JBool(TRUE)) # (c.cur.completed = 1)
                                   THEN (IF c.completed = JBool(TRUE) THEN 1 ELSE 0)
                                   ELSE old.completed
      ]_vars

\* C24 witness: two updates that both read todo 1 as {title "a", completed 1},
\* one changing the title, the other completed, have both written: the row has
\* the new title and the new completed.
C24_Witness ==
    /\ resp.op = "updateTodo" /\ resp.status = 200
    /\ resp.call.cur = SeedRow /\ resp.call.title = JStr(<<" ", "b">>)
    /\ resp.call.description = JUndef /\ resp.call.completed = JUndef
    /\ \E c \in inflight :
          /\ c.op = "updateTodo" /\ c.pc = "append"
          /\ c.cur = SeedRow /\ c.title = JUndef /\ c.description = JUndef
          /\ c.completed = JBool(FALSE)
    /\ 1 \in DOMAIN todos /\ todos[1].title = <<"b">> /\ todos[1].completed = 0

\* C25 (as stated): updateTodo goes on to its UPDATE activity and its success
\* response only when its UPDATE statement ran on an existing row, and no
\* UPDATE activity of a todo is appended after a DELETE activity of that todo.
C25_UpdateNeedsExistingRow ==
    [][ /\ \A c \in inflight, d \in inflight' :
              (c.op = "updateTodo" /\ c.pc = "write" /\ d.cid = c.cid /\ d.pc = "append")
                 => c.id \in DOMAIN todos
        /\ \A i, j \in 1..Len(appended) :
              (i < j /\ appended[i].act.action = "DELETE"
               /\ appended[j].act.action = "UPDATE")
                 => appended[i].act.todo_id # appended[j].act.todo_id
      ]_vars

\* C26 (as stated): for every todo id at most one DELETE activity is ever
\* appended, and a deleteTodo goes on to its DELETE activity and its success
\* response only when its DELETE statement removed the row.
C26_AtMostOneDelete ==
    [][ /\ \A i, j \in 1..Len(appended) :
              (appended[i].act.action = "DELETE" /\ appended[j].act.action = "DELETE"
               /\ appended[i].act.todo_id = appended[j].act.todo_id)
                 => i = j
        /\ \A c \in inflight, d \in inflight' :
              (c.op = "deleteTodo" /\ c.pc = "write" /\ d.cid = c.cid /\ d.pc = "append")
                 => c.id \in DOMAIN todos
      ]_vars

\* C27 (as stated): the UPDATE activity handed to the log when the UPDATE
\* statement has run has as old_value the row as it was in the store just
\* before the statement, and its change lines are those of the fields the
\* statement changed in that row, from the value the row had.
C27_UpdateLogsActualTransition ==
    [][ \A c \in inflight, d \in inflight' :
           (c.op = "updateTodo" /\ c.pc = "write" /\ d.cid = c.cid /\ d.pc = "append"
            /\ c.id \in DOMAIN todos)
              => /\ d.payload.old_value = Stringify(RowObj(todos[c.id]))
                 /\ d.payload.description =
                       C5_Expected(todos[c.id], c.title, c.description, c.completed)
      ]_vars

\* C28 (as stated): in every list response the rows are at most total, and
\* they are as many as the page holds of total matching activities: total is
\* the count of the moment the rows were read.
C28_RowsWithinTotal ==
    (resp.op = "getAllActivities" /\ resp.status = 200)
       => /\ Len(resp.rows) <= resp.total
          /\ LET rest == resp.total - (resp.page - 1) * resp.limit
             IN Len(resp.rows) = IF rest <= 0 THEN 0 ELSE Min(resp.limit, rest)

\* C29: ids come from counters that only grow: every id in a table is below
\* its counter, a row that enters a table has an id no row had before (at
\* least the counter, which moves past it), also after deletions; so a todo_id
\* that has no todo never gets one again, and every read joins such an
\* activity with a null title.
C29_IdsNeverReused ==
    [][ /\ nextTodoId' >= nextTodoId /\ nextActId' >= nextActId
        /\ \A k \in DOMAIN todos : k < nextTodoId
        /\ \A i \in 1..Len(activities) :
              activities[i].id < nextActId /\ activities[i].todo_id < nextTodoId
        /\ \A k \in DOMAIN todos' \ DOMAIN todos : k >= nextTodoId /\ k < nextTodoId'
        /\ \A j \in 1..Len(activities') :
              (\A i \in 1..Len(activities) : activities[i].id # activities'[j].id)
                 => (activities'[j].id >= nextActId /\ activities'[j].id < nextActId')
        /\ \A i, j \in 1..Len(appended) : i < j => appended[i].act.id < appended[j].act.id
        /\ \A i \in 1..Len(activities) :
              (activities[i].todo_id # NullId /\ activities[i].todo_id \notin DOMAIN todos)
                 => activities[i].todo_id \notin DOMAIN todos'
        /\ (Sent("getActivitiesByTodoId") /\ resp'.status = 200)
              => \A i \in 1..Len(resp'.rows) :
                    resp'.rows[i].act.todo_id \notin DOMAIN todos
                       => resp'.rows[i].todo_title = JNull
        /\ \A c \in inflight, d \in inflight' :
              (c.op = "getAllActivities" /\ c.pc = "page" /\ d.cid = c.cid
               /\ d.pc = "count")
                 => \A i \in 1..Len(d.rows) :
                       d.rows[i].act.todo_id \notin DOMAIN todos
                          => d.rows[i].todo_title = JNull
      ]_vars

\* C29 witness: todo 1 was deleted and a todo created afterwards got id 2;
\* the activity logged for todo 1 still refers to id 1, which has no todo.
C29_Witness ==
    /\ 1 \notin DOMAIN todos /\ 2 \in DOMAIN todos /\ nextTodoId = 3
    /\ \E i \in 1..Len(activities) : activities[i].todo_id = 1
    /\ resp.op = "deleteTodo" /\ resp.status = 200

\* C30: the success response of a create, update or delete is sent in the
\* step in which the call's append settles: either it is stored, as the one
\* activity of the call, or it failed and the call has none; only a call that
\* has not answered yet appends, and each append gets a larger id than all
\* before it, so the activity of a call answered before another is requested
\* has the smaller id; and a list page read after such a response holds the
\* call's activity when it is stored, still in the log and the page covers the
\* log.
C30_AppendSettledBeforeResponse ==
    [][ /\ (resp' # resp /\ resp'.op \in MutationOps /\ resp'.status \in {200, 201})
              => /\ resp'.call.logged \in {"stored", "failed"}
                 /\ \E c \in inflight : c.cid = resp'.cid /\ c.pc = "append"
                 /\ \A d \in inflight' : d.cid # resp'.cid
                 /\ Len(SelectSeq(appended', LAMBDA e : e.cid = resp'.cid)) =
                       (IF resp'.call.logged = "stored" THEN 1 ELSE 0)
        /\ appended' # appended
              => /\ Len(appended') = Len(appended) + 1
                 /\ SubSeq(appended', 1, Len(appended)) = appended
                 /\ \E c \in inflight :
                       c.pc = "append" /\ appended'[Len(appended')].cid = c.cid
                 /\ \A i \in 1..Len(appended) :
                       /\ appended[i].act.id < appended'[Len(appended')].act.id
                       /\ appended[i].cid \notin {c.cid : c \in inflight}
                             => appended[i].cid # appended'[Len(appended')].cid
        /\ \A c \in inflight, d \in inflight' :
              (c.op = "getAllActivities" /\ c.pc = "page" /\ d.cid = c.cid
               /\ d.pc = "count"
               /\ resp.op \in MutationOps /\ resp.status \in {200, 201}
               /\ resp.call.logged = "stored"
               /\ d.todo_id = NullId /\ d.page = 1 /\ d.limit >= Len(activities))
                 => \A i \in 1..Len(AppendedBy(resp.cid)) :
                       (\E j \in 1..Len(activities) :
                           activities[j] = AppendedBy(resp.cid)[i].act)
                          => \E k \in 1..Len(d.rows) :
                                d.rows[k].act = AppendedBy(resp.cid)[i].act
      ]_vars

\* C30 witness: a createTodo was answered after its CREATE activity was stored
\* and the list requested next returned that activity.
C30_Witness ==
    /\ resp.op = "getAllActivities" /\ resp.status = 200 /\ resp.cid = 2
    /\ Len(AppendedBy(1)) = 1 /\ AppendedBy(1)[1].act.action = "CREATE"
    /\ \E k \in 1..Len(resp.rows) : resp.rows[k].act = AppendedBy(1)[1].act
    /\ resp.total = 1

====
